---- MODULE Spec2Model ----
(***************************************************************************)
(* Model of src/decoder.rs: the two lossy raw decoders, LossyASCIIDecoder  *)
(* and LossyUTF8Decoder, and the ByteAlignedDecoder adapter on top of      *)
(* them.  Bytes are integers 0..255, characters are their Unicode code     *)
(* points.  Panics (slice index, expect, debug_assert, arithmetic          *)
(* overflow of a debug build) are recorded in the variable fault.          *)
(***************************************************************************)
EXTENDS Integers, Sequences, FiniteSets, TLC

\* Longest buffer explored.
MaxLen == 4

\* The byte values the buffers are built from: at least one value of every
\* range the decoders and the UTF-8 validation distinguish.
\*   0x7F       7-bit                      0x80 0xA0  continuation bytes
\*   0xC0       2-byte lead, never valid   0xC3       2-byte lead
\*   0xE0       3-byte lead (second byte must be 0xA0..0xBF)
\*   0xED       3-byte lead (second byte must be 0x80..0x9F)
\*   0xF0       4-byte lead (second byte must be 0x90..0xBF)
\*   0xF7       4-byte lead, never valid   0xF8       not a lead byte
ByteSamples == {127, 128, 160, 192, 195, 224, 237, 240, 247, 248}

Buffers == UNION {[1..n -> ByteSamples] : n \in 0..MaxLen}

\* Longest buffer explored under fairness, where TLC has to search for cycles.
MaxLiveLen == 3

\* One byte value of each range the decoders distinguish.
LiveSamples == {127, 128, 160, 195, 224, 240}

LiveBuffers == UNION {[1..n -> LiveSamples] : n \in 0..MaxLiveLen}

\* Longest buffer explored with two decoder instances over it.
MaxPairLen == 3

\* Byte values of the two-instance runs: two 7-bit values, two continuation
\* bytes, a 2-byte and a 3-byte lead.
PairSamples == {0, 127, 128, 160, 195, 224}

PairBuffers == UNION {[1..n -> PairSamples] : n \in 0..MaxPairLen}

\* '\u{FFFD}', the replacement character of both raw decoders.
REPLACEMENT == 65533
\* '\u{2022}', the filler glyph of ByteAlignedDecoder.
FILLER == 8226

VARIABLES
    bytes,      \* the borrowed buffer (LossyASCIIDecoder.bytes / LossyUTF8Decoder.bytes)
    kind,       \* which raw decoder was constructed: "ascii" or "utf8"
    aligned,    \* TRUE when the raw decoder was moved into a ByteAlignedDecoder
    cursor,     \* the raw decoder's cursor
    to_fill,    \* ByteAlignedDecoder.to_fill
    ret,        \* what the raw decoder's last next() returned
    aret,       \* what ByteAlignedDecoder's last next() returned
    units,      \* history: <<offset, char, CharType>> of every unit returned so far
    out,        \* history: every char ByteAlignedDecoder returned so far
    fault,      \* "none", or the panic that stopped the program
    read,       \* the buffer indices the last pull read
    after_end,  \* TRUE once next() was called again after it had returned None
    \* a second decoder built over the same buffer ("none" when there is one only)
    kind2,      \* its type: "ascii", "utf8" or "none"
    cursor2,    \* its cursor
    to_fill2,   \* to_fill of the ByteAlignedDecoder over it
    ret2,       \* what its last next() returned
    aret2,      \* what the last next() of the ByteAlignedDecoder over it returned
    units2,     \* history of its units
    out2        \* history of the chars of the ByteAlignedDecoder over it

\* the fields and histories of the second instance
other == <<kind2, cursor2, to_fill2, ret2, aret2, units2, out2>>

vars == <<bytes, kind, aligned, cursor, to_fill, ret, aret, units, out, fault,
          read, after_end, other>>

----------------------------------------------------------------------------
\* enum CharType
Ascii == <<"Ascii">>
Unicode(size) == <<"Unicode", size>>
Unknown == <<"Unknown">>

\* CharType::size counting two bytes for Unknown
CharTypeSize_UnknownTwo(info) ==
    CASE info[1] = "Ascii" -> 1
      [] info[1] = "Unicode" -> info[2]
      [] info[1] = "Unknown" -> 2

\* CharType::size counting no byte for Unknown
CharTypeSize_UnknownZero(info) ==
    CASE info[1] = "Ascii" -> 1
      [] info[1] = "Unicode" -> info[2]
      [] info[1] = "Unknown" -> 0

\* CharType::size
CharTypeSize(info) ==
    CASE info[1] = "Ascii" -> 1
      [] info[1] = "Unicode" -> info[2]
      [] info[1] = "Unknown" -> 1

\* Option<Item>
None == <<"None">>
Some(item) == <<"Some", item>>
NotPulled == <<"NotPulled">>

\* min that does not clamp: always the second argument
Min_NoClamp(a, b) == b

Min(a, b) == IF a <= b THEN a ELSE b

\* is_ascii with the bound off by one
is_ascii_Below7F(byte) == byte < 127

\* u8::is_ascii
is_ascii(byte) == byte <= 127

----------------------------------------------------------------------------
\* std::str::from_utf8 as called on the chunk (core::str::validations).

\* UTF8_CHAR_WIDTH of the standard library
utf8_char_width(b) ==
    IF b <= 127 THEN 1
    ELSE IF b >= 194 /\ b <= 223 THEN 2
    ELSE IF b >= 224 /\ b <= 239 THEN 3
    ELSE IF b >= 240 /\ b <= 244 THEN 4
    ELSE 0

IsContinuation(b) == b >= 128 /\ b <= 191

\* the (first, second) table of run_utf8_validation for 3-byte sequences
Second3Ok(first, second) ==
    \/ first = 224 /\ second >= 160 /\ second <= 191
    \/ first >= 225 /\ first <= 236 /\ IsContinuation(second)
    \/ first = 237 /\ second >= 128 /\ second <= 159
    \/ first >= 238 /\ first <= 239 /\ IsContinuation(second)

\* the (first, second) table of run_utf8_validation for 4-byte sequences
Second4Ok(first, second) ==
    \/ first = 240 /\ second >= 144 /\ second <= 191
    \/ first >= 241 /\ first <= 243 /\ IsContinuation(second)
    \/ first = 244 /\ second >= 128 /\ second <= 143

\* ValidPrefix accepting a sequence cut short by the end of the chunk
ValidPrefix_AcceptsTruncated(s) ==
    LET first == s[1]
        w == utf8_char_width(first)
    IN  IF w = 0 THEN 0
        ELSE IF Len(s) < w THEN Len(s)
        ELSE IF w = 1 THEN 1
        ELSE IF w = 2 THEN (IF IsContinuation(s[2]) THEN 2 ELSE 0)
        ELSE IF w = 3
             THEN (IF Second3Ok(first, s[2]) /\ IsContinuation(s[3]) THEN 3 ELSE 0)
        ELSE (IF Second4Ok(first, s[2]) /\ IsContinuation(s[3]) /\ IsContinuation(s[4])
              THEN 4 ELSE 0)

\* ValidPrefix not looking at the bytes after the lead byte
ValidPrefix_LeadOnly(s) ==
    LET w == utf8_char_width(s[1])
    IN  IF w = 0 \/ Len(s) < w THEN 0 ELSE w

\* Length of the well-formed sequence s starts with, 0 when it starts with none.
ValidPrefix(s) ==
    LET first == s[1]
        w == utf8_char_width(first)
    IN  IF w = 0 \/ Len(s) < w THEN 0
        ELSE IF w = 1 THEN 1
        ELSE IF w = 2 THEN (IF IsContinuation(s[2]) THEN 2 ELSE 0)
        ELSE IF w = 3
             THEN (IF Second3Ok(first, s[2]) /\ IsContinuation(s[3]) THEN 3 ELSE 0)
        ELSE (IF Second4Ok(first, s[2]) /\ IsContinuation(s[3]) /\ IsContinuation(s[4])
              THEN 4 ELSE 0)

\* next_code_point keeping the marker bits of the lead byte
next_code_point_NoMask(s) ==
    IF Len(s) = 1 THEN s[1]
    ELSE IF Len(s) = 2 THEN s[1] * 64 + (s[2] % 64)
    ELSE IF Len(s) = 3 THEN s[1] * 4096 + (s[2] % 64) * 64 + (s[3] % 64)
    ELSE s[1] * 262144 + (s[2] % 64) * 4096 + (s[3] % 64) * 64 + (s[4] % 64)

\* next_code_point: the code point of one validated sequence
next_code_point(s) ==
    IF Len(s) = 1 THEN s[1]
    ELSE IF Len(s) = 2 THEN (s[1] % 32) * 64 + (s[2] % 64)
    ELSE IF Len(s) = 3 THEN (s[1] % 32) * 4096 + (s[2] % 64) * 64 + (s[3] % 64)
    ELSE (s[1] % 8) * 262144 + (s[2] % 64) * 4096 + (s[3] % 64) * 64 + (s[4] % 64)

\* from_utf8(chunk).map(str::chars): Err, or the chars of the whole chunk
RECURSIVE from_utf8(_)
from_utf8(s) ==
    IF s = <<>> THEN [ok |-> TRUE, chars |-> <<>>]
    ELSE LET w == ValidPrefix(s)
         IN  IF w = 0 THEN [ok |-> FALSE, chars |-> <<>>]
             ELSE LET rest == from_utf8(SubSeq(s, w + 1, Len(s)))
                  IN  IF rest.ok
                      THEN [ok |-> TRUE,
                            chars |-> <<next_code_point(SubSeq(s, 1, w))>> \o rest.chars]
                      ELSE [ok |-> FALSE, chars |-> <<>>]

----------------------------------------------------------------------------
\* LossyASCIIDecoderNext ending one byte before the end of the buffer
LossyASCIIDecoderNext_StopsEarly(b, cur) ==
    IF cur + 1 < Len(b)
    THEN LET byte == b[cur + 1]
         IN  [cursor |-> cur + 1,
              item |-> IF is_ascii(byte) THEN Some(<<byte, Ascii>>)
                                         ELSE Some(<<REPLACEMENT, Unknown>>),
              fault |-> "none"]
    ELSE [cursor |-> cur, item |-> None, fault |-> "none"]

\* LossyASCIIDecoderNext rewinding the cursor when it returns None
LossyASCIIDecoderNext_RestartsAtEnd(b, cur) ==
    IF cur < Len(b)
    THEN LET byte == b[cur + 1]
         IN  [cursor |-> cur + 1,
              item |-> IF is_ascii(byte) THEN Some(<<byte, Ascii>>)
                                         ELSE Some(<<REPLACEMENT, Unknown>>),
              fault |-> "none"]
    ELSE [cursor |-> 0, item |-> None, fault |-> "none"]

\* LossyASCIIDecoder::next on buffer b with cursor cur:
\* the new cursor, the returned Option and the panic, if any.
LossyASCIIDecoderNext(b, cur) ==
    IF cur < Len(b)
    THEN LET byte == b[cur + 1]
         IN  [cursor |-> cur + 1,
              item |-> IF is_ascii(byte) THEN Some(<<byte, Ascii>>)
                                         ELSE Some(<<REPLACEMENT, Unknown>>),
              fault |-> "none"]
    ELSE [cursor |-> cur, item |-> None, fault |-> "none"]

\* LeadInfo declaring three bytes for the 2-byte leads 0xC0..0xDF
LeadInfo_TwoByteAsThree(byte) ==
    IF byte <= 127 THEN Ascii
    ELSE IF byte >= 192 /\ byte <= 239 THEN Unicode(3)
    ELSE IF byte >= 240 /\ byte <= 247 THEN Unicode(4)
    ELSE Unknown

\* LeadInfo with the 7-bit range ending at 0x7E
LeadInfo_Below7F(byte) ==
    IF byte < 127 THEN Ascii
    ELSE IF byte >= 192 /\ byte <= 223 THEN Unicode(2)
    ELSE IF byte >= 224 /\ byte <= 239 THEN Unicode(3)
    ELSE IF byte >= 240 /\ byte <= 247 THEN Unicode(4)
    ELSE Unknown

\* the match on the lead byte in LossyUTF8Decoder::next; Unknown is the `_` arm
LeadInfo(byte) ==
    IF byte <= 127 THEN Ascii
    ELSE IF byte >= 192 /\ byte <= 223 THEN Unicode(2)
    ELSE IF byte >= 224 /\ byte <= 239 THEN Unicode(3)
    ELSE IF byte >= 240 /\ byte <= 247 THEN Unicode(4)
    ELSE Unknown

\* UnknownArm skipping the byte after the invalid one as well
UnknownArm_SkipsTwo(cur) ==
    [cursor |-> cur + 2, item |-> Some(<<REPLACEMENT, Unknown>>), fault |-> "none"]

\* the `_` arm of the match: not a lead byte, skip it
UnknownArm(cur) ==
    [cursor |-> cur + 1, item |-> Some(<<REPLACEMENT, Unknown>>), fault |-> "none"]

\* FailArm skipping the declared width of the malformed sequence
FailArm_SkipsDeclared(cur, info) ==
    [cursor |-> cur + CharTypeSize(info), item |-> Some(<<REPLACEMENT, Unknown>>),
     fault |-> "none"]

\* the else branch: the chunk is not valid UTF-8, skip one byte
FailArm(cur, info) ==
    [cursor |-> cur + 1, item |-> Some(<<REPLACEMENT, Unknown>>), fault |-> "none"]

\* OkArm advancing by one byte whatever the width
OkArm_AdvancesOne(cur, info, chars) ==
    IF Len(chars) = 0
    THEN [cursor |-> cur, item |-> None, fault |-> "expect"]
    ELSE IF Len(chars) > 1
    THEN [cursor |-> cur, item |-> None, fault |-> "debug_assert"]
    ELSE [cursor |-> cur + 1, item |-> Some(<<chars[1], info>>), fault |-> "none"]

\* the Ok branch: chars are the chars of the validated chunk
OkArm(cur, info, chars) ==
    IF Len(chars) = 0
    THEN [cursor |-> cur, item |-> None, fault |-> "expect"]
    ELSE IF Len(chars) > 1
    THEN [cursor |-> cur, item |-> None, fault |-> "debug_assert"]
    ELSE [cursor |-> cur + CharTypeSize(info), item |-> Some(<<chars[1], info>>),
          fault |-> "none"]

\* LossyUTF8Decoder::next on buffer b with cursor cur
LossyUTF8DecoderNext(b, cur) ==
    IF cur < Len(b)
    THEN LET info == LeadInfo(b[cur + 1])
         IN  IF info = Unknown
             THEN UnknownArm(cur)
             ELSE LET new_cursor == Min(Len(b), cur + CharTypeSize(info))
                  IN  IF ~(cur <= new_cursor /\ new_cursor <= Len(b))
                      THEN [cursor |-> cur, item |-> None, fault |-> "slice index"]
                      ELSE LET chunk == SubSeq(b, cur + 1, new_cursor)
                               res == from_utf8(chunk)
                           IN  IF res.ok THEN OkArm(cur, info, res.chars)
                                         ELSE FailArm(cur, info)
    ELSE [cursor |-> cur, item |-> None, fault |-> "none"]

\* D::next of the decoder the program constructed
DecoderNext(k, b, cur) ==
    IF k = "ascii" THEN LossyASCIIDecoderNext(b, cur) ELSE LossyUTF8DecoderNext(b, cur)

\* the units history after a pull at cursor cur that returned item
Record(us, cur, item) ==
    IF item[1] = "Some" THEN Append(us, <<cur, item[2][1], item[2][2]>>) ELSE us

\* ByteAlignedDecoderNext with the pending count set to the width, not width - 1
ByteAlignedDecoderNext_NoMinusOne(fill, r) ==
    IF fill = 0
    THEN IF r.fault # "none" THEN [to_fill |-> fill, item |-> None, fault |-> r.fault]
         ELSE IF r.item = None THEN [to_fill |-> fill, item |-> None, fault |-> "none"]
         ELSE [to_fill |-> CharTypeSize(r.item[2][2]), item |-> Some(r.item[2][1]),
               fault |-> "none"]
    ELSE [to_fill |-> fill - 1, item |-> Some(FILLER), fault |-> "none"]

\* ByteAlignedDecoderNext padding with the replacement character
ByteAlignedDecoderNext_PadsWithReplacement(fill, r) ==
    IF fill = 0
    THEN IF r.fault # "none" THEN [to_fill |-> fill, item |-> None, fault |-> r.fault]
         ELSE IF r.item = None THEN [to_fill |-> fill, item |-> None, fault |-> "none"]
         ELSE [to_fill |-> CharTypeSize(r.item[2][2]) - 1, item |-> Some(r.item[2][1]),
               fault |-> "none"]
    ELSE [to_fill |-> fill - 1, item |-> Some(REPLACEMENT), fault |-> "none"]

\* ByteAlignedDecoder::next with pending fillers fill over the decoder result r
\* (r is only used when fill = 0)
ByteAlignedDecoderNext(fill, r) ==
    IF fill = 0
    THEN IF r.fault # "none" THEN [to_fill |-> fill, item |-> None, fault |-> r.fault]
         ELSE IF r.item = None THEN [to_fill |-> fill, item |-> None, fault |-> "none"]
         ELSE LET c == r.item[2][1]
                  info == r.item[2][2]
              IN  IF CharTypeSize(info) < 1
                  THEN [to_fill |-> fill, item |-> None, fault |-> "subtract overflow"]
                  ELSE [to_fill |-> CharTypeSize(info) - 1, item |-> Some(c),
                        fault |-> "none"]
    ELSE [to_fill |-> fill - 1, item |-> Some(FILLER), fault |-> "none"]

----------------------------------------------------------------------------
\* the buffer indices LossyASCIIDecoder::next reads: bytes[cursor]
LossyASCIIDecoderReads(b, cur) ==
    IF cur < Len(b) THEN {cur} ELSE {}

\* the buffer indices LossyUTF8Decoder::next reads: bytes[cursor] and the
\* slice bytes[cursor..new_cursor]
LossyUTF8DecoderReads(b, cur) ==
    IF cur < Len(b)
    THEN LET info == LeadInfo(b[cur + 1])
         IN  IF info = Unknown THEN {cur}
             ELSE {cur} \cup (cur..(Min(Len(b), cur + CharTypeSize(info)) - 1))
    ELSE {}

DecoderReads(k, b, cur) ==
    IF k = "ascii" THEN LossyASCIIDecoderReads(b, cur) ELSE LossyUTF8DecoderReads(b, cur)

\* no second instance
OneInstance ==
    /\ kind2 = "none"
    /\ cursor2 = 0
    /\ to_fill2 = 0
    /\ ret2 = NotPulled
    /\ aret2 = NotPulled
    /\ units2 = <<>>
    /\ out2 = <<>>

\* From<&[u8]> of either decoder, optionally followed by ByteAlignedDecoder::from
Init ==
    /\ bytes \in Buffers
    /\ kind \in {"ascii", "utf8"}
    /\ aligned \in BOOLEAN
    /\ cursor = 0
    /\ to_fill = 0
    /\ ret = NotPulled
    /\ aret = NotPulled
    /\ units = <<>>
    /\ out = <<>>
    /\ fault = "none"
    /\ read = {}
    /\ after_end = FALSE
    /\ OneInstance

\* a caller pulls the raw decoder directly
RawPull(k) ==
    /\ fault = "none"
    /\ ~aligned
    /\ kind = k
    /\ LET r == DecoderNext(k, bytes, cursor)
       IN  /\ cursor' = r.cursor
           /\ ret' = r.item
           /\ fault' = r.fault
           /\ units' = Record(units, cursor, r.item)
    /\ read' = DecoderReads(k, bytes, cursor)
    /\ after_end' = (after_end \/ ret = None)
    /\ UNCHANGED <<bytes, kind, aligned, to_fill, aret, out, other>>

LossyASCIIDecoder_next == RawPull("ascii")

LossyUTF8Decoder_next == RawPull("utf8")

\* ByteAlignedDecoder_next pulling the wrapped decoder on filler steps too
ByteAlignedDecoder_next_AlwaysPulls ==
    /\ fault = "none"
    /\ aligned
    /\ LET r == DecoderNext(kind, bytes, cursor)
           a == ByteAlignedDecoderNext(to_fill, r)
       IN  /\ to_fill' = a.to_fill
           /\ aret' = a.item
           /\ fault' = a.fault
           /\ out' = IF a.item = None THEN out ELSE Append(out, a.item[2])
           /\ cursor' = r.cursor
           /\ ret' = r.item
           /\ units' = Record(units, cursor, r.item)
           /\ read' = DecoderReads(kind, bytes, cursor)
    /\ after_end' = (after_end \/ aret = None)
    /\ UNCHANGED <<bytes, kind, aligned, other>>

\* a caller pulls the ByteAlignedDecoder
ByteAlignedDecoder_next ==
    /\ fault = "none"
    /\ aligned
    /\ LET r == DecoderNext(kind, bytes, cursor)
           a == ByteAlignedDecoderNext(to_fill, r)
       IN  /\ to_fill' = a.to_fill
           /\ aret' = a.item
           /\ fault' = a.fault
           /\ out' = IF a.item = None THEN out ELSE Append(out, a.item[2])
           /\ IF to_fill = 0
              THEN /\ cursor' = r.cursor
                   /\ ret' = r.item
                   /\ units' = Record(units, cursor, r.item)
                   /\ read' = DecoderReads(kind, bytes, cursor)
              ELSE /\ UNCHANGED <<cursor, ret, units>>
                   /\ read' = {}
    /\ after_end' = (after_end \/ aret = None)
    /\ UNCHANGED <<bytes, kind, aligned, other>>

Next ==
    \/ LossyASCIIDecoder_next
    \/ LossyUTF8Decoder_next
    \/ ByteAlignedDecoder_next

Spec == Init /\ [][Next]_vars

\* Init over the buffers of the liveness check
LiveInit ==
    /\ bytes \in LiveBuffers
    /\ kind \in {"ascii", "utf8"}
    /\ aligned \in BOOLEAN
    /\ cursor = 0
    /\ to_fill = 0
    /\ ret = NotPulled
    /\ aret = NotPulled
    /\ units = <<>>
    /\ out = <<>>
    /\ fault = "none"
    /\ read = {}
    /\ after_end = FALSE
    /\ OneInstance

\* the program with a caller that keeps pulling until the iterator returns
\* None (Iterator::collect, as in the tests)
LiveSpec == LiveInit /\ [][Next]_vars /\ WF_vars(Next)

----------------------------------------------------------------------------
\* Two decoders built over the same buffer, each with its own cursor, pulled
\* in any order; both raw, or each under a ByteAlignedDecoder of its own.

PairInit ==
    /\ bytes \in PairBuffers
    /\ kind \in {"ascii", "utf8"}
    /\ kind2 \in {"ascii", "utf8"}
    /\ aligned \in BOOLEAN
    /\ cursor = 0
    /\ to_fill = 0
    /\ ret = NotPulled
    /\ aret = NotPulled
    /\ units = <<>>
    /\ out = <<>>
    /\ cursor2 = 0
    /\ to_fill2 = 0
    /\ ret2 = NotPulled
    /\ aret2 = NotPulled
    /\ units2 = <<>>
    /\ out2 = <<>>
    /\ fault = "none"
    /\ read = {}
    /\ after_end = FALSE

\* OtherRawPull moving the cursor of the first instance: one cursor for both
OtherRawPull_SharedCursor(k) ==
    /\ fault = "none"
    /\ ~aligned
    /\ kind2 = k
    /\ LET r == DecoderNext(k, bytes, cursor)
       IN  /\ cursor' = r.cursor
           /\ cursor2' = r.cursor
           /\ ret2' = r.item
           /\ fault' = r.fault
           /\ units2' = Record(units2, cursor, r.item)
    /\ UNCHANGED <<bytes, kind, aligned, to_fill, ret, aret, units, out,
                   read, after_end, kind2, to_fill2, aret2, out2>>

\* a caller pulls the second raw decoder directly
OtherRawPull(k) ==
    /\ fault = "none"
    /\ ~aligned
    /\ kind2 = k
    /\ LET r == DecoderNext(k, bytes, cursor2)
       IN  /\ cursor2' = r.cursor
           /\ ret2' = r.item
           /\ fault' = r.fault
           /\ units2' = Record(units2, cursor2, r.item)
    /\ UNCHANGED <<bytes, kind, aligned, cursor, to_fill, ret, aret, units, out,
                   read, after_end, kind2, to_fill2, aret2, out2>>

Other_LossyASCIIDecoder_next == OtherRawPull("ascii")

Other_LossyUTF8Decoder_next == OtherRawPull("utf8")

\* a caller pulls the ByteAlignedDecoder over the second decoder
Other_ByteAlignedDecoder_next ==
    /\ fault = "none"
    /\ aligned
    /\ kind2 # "none"
    /\ LET r == DecoderNext(kind2, bytes, cursor2)
           a == ByteAlignedDecoderNext(to_fill2, r)
       IN  /\ to_fill2' = a.to_fill
           /\ aret2' = a.item
           /\ fault' = a.fault
           /\ out2' = IF a.item = None THEN out2 ELSE Append(out2, a.item[2])
           /\ IF to_fill2 = 0
              THEN /\ cursor2' = r.cursor
                   /\ ret2' = r.item
                   /\ units2' = Record(units2, cursor2, r.item)
              ELSE UNCHANGED <<cursor2, ret2, units2>>
    /\ UNCHANGED <<bytes, kind, aligned, cursor, to_fill, ret, aret, units, out,
                   read, after_end, kind2>>

PairNext ==
    \/ LossyASCIIDecoder_next
    \/ LossyUTF8Decoder_next
    \/ ByteAlignedDecoder_next
    \/ Other_LossyASCIIDecoder_next
    \/ Other_LossyUTF8Decoder_next
    \/ Other_ByteAlignedDecoder_next

PairSpec == PairInit /\ [][PairNext]_vars

----------------------------------------------------------------------------
\* Vocabulary of the properties.

\* width of a classification as the specification defines it
Width(info) ==
    IF info = Ascii \/ info = Unknown THEN 1 ELSE info[2]

\* the step about to be taken pulls the raw decoder
\* (directly, or through the adapter when no filler is pending)
DecoderPulled == fault = "none" /\ (~aligned \/ to_fill = 0)

\* the raw decoder has returned None
Drained == ret = None

\* the adapter has returned None
AlignedDrained == aligned /\ aret = None

UnitAt(i) == units[i][1]
UnitChar(i) == units[i][2]
UnitInfo(i) == units[i][3]

----------------------------------------------------------------------------
\* C1: once the ByteAlignedDecoder over either raw decoder has returned end,
\* it has returned exactly Len(bytes) characters, whatever the buffer holds.
C1_LengthPreservation ==
    AlignedDrained => Len(out) = Len(bytes)

\* a drained UTF-8 pipeline over a buffer with a multi-byte character and a
\* malformed byte
C1_Witness ==
    /\ AlignedDrained
    /\ kind = "utf8"
    /\ Len(bytes) >= 3
    /\ Len(out) = Len(bytes)
    /\ \E i \in 1..Len(units) : UnitInfo(i)[1] = "Unicode"
    /\ \E i \in 1..Len(units) : UnitInfo(i) = Unknown

\* C2: in the drained adapter output every unit of width W starting at offset
\* p has its character at index p and the filler glyph at p+1 .. p+W-1, the
\* next unit (or the end of the output) follows right after, so a 1-byte unit
\* has no filler; the filler glyph differs from the replacement character.
C2_FillerShape ==
    AlignedDrained =>
        /\ FILLER # REPLACEMENT
        /\ \A i \in 1..Len(units) :
              LET p == UnitAt(i)
                  W == Width(UnitInfo(i))
              IN  /\ p + W <= Len(out)
                  /\ out[p + 1] = UnitChar(i)
                  /\ \A j \in 1..(W - 1) : out[p + 1 + j] = FILLER
                  /\ IF i < Len(units) THEN UnitAt(i + 1) = p + W
                                       ELSE Len(out) = p + W

\* a drained output holding a unit with two fillers and an Unknown unit
C2_Witness ==
    /\ AlignedDrained
    /\ \E i \in 1..Len(units) : Width(UnitInfo(i)) >= 3
    /\ \E i \in 1..Len(units) : UnitInfo(i) = Unknown
    /\ \E i \in 1..Len(out) : out[i] = FILLER

----------------------------------------------------------------------------
\* Well-formed UTF-8 as the Unicode standard defines it, by encoding:
\* a sequence is well formed when it is the encoding of a scalar value.

\* char::encode_utf8 of scalar value c
encode_utf8(c) ==
    IF c < 128 THEN <<c>>
    ELSE IF c < 2048 THEN <<192 + (c \div 64), 128 + (c % 64)>>
    ELSE IF c < 65536
         THEN <<224 + (c \div 4096), 128 + ((c \div 64) % 64), 128 + (c % 64)>>
    ELSE <<240 + (c \div 262144), 128 + ((c \div 4096) % 64),
           128 + ((c \div 64) % 64), 128 + (c % 64)>>

\* the scalar values: 0..0x10FFFF without the surrogates 0xD800..0xDFFF
IsScalar(c) == c >= 0 /\ c <= 1114111 /\ ~(c >= 55296 /\ c <= 57343)

\* payload bits of a sequence of 1..4 bytes
Payload(s) ==
    CASE Len(s) = 1 -> s[1] % 128
      [] Len(s) = 2 -> (s[1] % 32) * 64 + (s[2] % 64)
      [] Len(s) = 3 -> (s[1] % 16) * 4096 + (s[2] % 64) * 64 + (s[3] % 64)
      [] Len(s) = 4 -> (s[1] % 8) * 262144 + (s[2] % 64) * 4096
                       + (s[3] % 64) * 64 + (s[4] % 64)

\* s is the complete encoding of exactly one character
IsOneChar(s) ==
    /\ Len(s) \in 1..4
    /\ IsScalar(Payload(s))
    /\ encode_utf8(Payload(s)) = s

\* the w bytes at offset p of the buffer are the encoding of one character
WellFormedAt(p, w) ==
    /\ p + w <= Len(bytes)
    /\ IsOneChar(SubSeq(bytes, p + 1, p + w))

CharAt(p, w) == Payload(SubSeq(bytes, p + 1, p + w))

\* declared width of the lead byte at offset p, 0 when it is none of 0xC0..0xF7
Declared(p) ==
    LET b == bytes[p + 1]
    IN  IF b >= 192 /\ b <= 223 THEN 2
        ELSE IF b >= 224 /\ b <= 239 THEN 3
        ELSE IF b >= 240 /\ b <= 247 THEN 4
        ELSE 0

\* the slice of up to Declared(p) bytes at p, clamped to the end of the buffer
Clamped(p) ==
    SubSeq(bytes, p + 1, IF p + Declared(p) <= Len(bytes) THEN p + Declared(p)
                                                         ELSE Len(bytes))

UnknownUnit == Some(<<REPLACEMENT, Unknown>>)

\* C3: a pull of LossyUTF8Decoder with the cursor on the complete well-formed
\* encoding of a character c of w = 2, 3 or 4 bytes returns (c, Unicode(w))
\* and advances the cursor by w.
C3_UnicodeRoundTrip ==
    [][ (kind = "utf8" /\ DecoderPulled) =>
            \A w \in 2..4 :
                WellFormedAt(cursor, w) =>
                    /\ ret' = Some(<<CharAt(cursor, w), Unicode(w)>>)
                    /\ cursor' = cursor + w ]_vars

\* a 3-byte character decoded after an earlier unit
C3_Witness ==
    /\ kind = "utf8"
    /\ Len(units) >= 2
    /\ UnitAt(Len(units)) >= 1
    /\ WellFormedAt(UnitAt(Len(units)), 3)
    /\ ret = Some(<<CharAt(UnitAt(Len(units)), 3), Unicode(3)>>)
    /\ cursor = UnitAt(Len(units)) + 3

\* C4: a pull of LossyUTF8Decoder with the cursor at p on a lead byte
\* 0xC0..0xF7 whose clamped slice is not one well-formed character returns
\* (replacement, Unknown) and moves the cursor to p+1; the pull after it
\* starts at p+1 and decodes a well-formed character there as itself.
C4_SingleByteResync ==
    [][ (kind = "utf8" /\ DecoderPulled /\ cursor < Len(bytes)) =>
            /\ (Declared(cursor) # 0 /\ ~IsOneChar(Clamped(cursor))) =>
                    (ret' = UnknownUnit /\ cursor' = cursor + 1)
            /\ ( /\ cursor >= 1
                 /\ Declared(cursor - 1) # 0
                 /\ ~IsOneChar(Clamped(cursor - 1))
                 /\ ret = UnknownUnit
                 /\ units # <<>>
                 /\ UnitAt(Len(units)) = cursor - 1 ) =>
                    /\ units' # units
                    /\ units'[Len(units) + 1][1] = cursor
                    /\ \A w \in 1..4 :
                          WellFormedAt(cursor, w) =>
                              /\ units'[Len(units) + 1][2] = CharAt(cursor, w)
                              /\ Width(units'[Len(units) + 1][3]) = w
                              /\ cursor' = cursor + w ]_vars

\* a malformed 3- or 4-byte lead was skipped by one byte and the multi-byte
\* character right behind it was decoded
C4_Witness ==
    /\ kind = "utf8"
    /\ \E i \in 1..Len(units) :
          /\ i >= 2
          /\ UnitInfo(i - 1) = Unknown
          /\ Declared(UnitAt(i - 1)) >= 3
          /\ UnitAt(i) = UnitAt(i - 1) + 1
          /\ UnitInfo(i)[1] = "Unicode"
          /\ WellFormedAt(UnitAt(i), Width(UnitInfo(i)))

\* the buffer ends at offset p in a lead byte of declared width N followed by
\* fewer than N-1 bytes
TruncatedTail(p) ==
    /\ p < Len(bytes)
    /\ Declared(p) # 0
    /\ Len(bytes) - p - 1 < Declared(p) - 1

\* all bytes after the lead byte at p are continuation bytes 0x80..0xBF
OnlyContinuationsAfter(p) ==
    \A q \in (p + 1)..(Len(bytes) - 1) : bytes[q + 1] >= 128 /\ bytes[q + 1] <= 191

\* the drained decoder returned an Unknown unit for each byte from p on
UnknownFrom(p) ==
    \A q \in p..(Len(bytes) - 1) :
        \E i \in 1..Len(units) : units[i] = <<q, REPLACEMENT, Unknown>>

\* C5 as stated: whatever the bytes after the truncated lead byte are, every
\* byte of the tail comes out as an Unknown unit.
C5_AsStated ==
    (kind = "utf8" /\ Drained) =>
        \A p \in 0..(Len(bytes) - 1) : TruncatedTail(p) => UnknownFrom(p)

\* C5: when the buffer ends in a lead byte of declared width N followed by
\* fewer than N-1 bytes that are all continuation bytes, the drained
\* LossyUTF8Decoder has returned one Unknown unit of one byte for the lead
\* byte and for every byte after it.
C5_TruncationHandling ==
    (kind = "utf8" /\ Drained) =>
        \A p \in 0..(Len(bytes) - 1) :
            (TruncatedTail(p) /\ OnlyContinuationsAfter(p)) => UnknownFrom(p)

\* a drained buffer ending in a 3- or 4-byte lead with one continuation byte
C5_Witness ==
    /\ kind = "utf8"
    /\ Drained
    /\ \E p \in 1..(Len(bytes) - 2) :
          /\ TruncatedTail(p)
          /\ OnlyContinuationsAfter(p)
          /\ UnknownFrom(p)

\* C6: the drained LossyASCIIDecoder has returned one unit per byte, in
\* order: (byte as char, Ascii) for a byte <= 0x7F, (replacement, Unknown)
\* for a byte >= 0x80.
C6_AsciiOnePerByte ==
    (kind = "ascii" /\ Drained) =>
        /\ Len(units) = Len(bytes)
        /\ \A i \in 1..Len(bytes) :
              units[i] = IF bytes[i] <= 127 THEN <<i - 1, bytes[i], Ascii>>
                                            ELSE <<i - 1, REPLACEMENT, Unknown>>

\* a drained ASCII decoder over a buffer with bytes of both ranges
C6_Witness ==
    /\ kind = "ascii"
    /\ Drained
    /\ Len(units) >= 3
    /\ \E i \in 1..Len(bytes) : bytes[i] = 127
    /\ \E i \in 1..Len(bytes) : bytes[i] >= 128

\* C7: after either decoder is drained, every byte <= 0x7F of the buffer has
\* a unit of its own that starts at its index and is (byte as char, Ascii).
C7_AsciiFidelity ==
    Drained =>
        \A i \in 1..Len(bytes) :
            bytes[i] <= 127 =>
                \E j \in 1..Len(units) : units[j] = <<i - 1, bytes[i], Ascii>>

\* the UTF-8 decoder kept a 7-bit byte that follows a multi-byte lead byte
C7_Witness ==
    /\ kind = "utf8"
    /\ Drained
    /\ \E i \in 2..Len(bytes) :
          /\ bytes[i] <= 127
          /\ bytes[i - 1] >= 192 /\ bytes[i - 1] <= 247
          /\ \E j \in 1..Len(units) : units[j] = <<i - 1, bytes[i], Ascii>>

\* C8: a pull of LossyUTF8Decoder with the cursor on a byte 0x80..0xBF or
\* 0xF8..0xFF returns (replacement, Unknown) and advances the cursor by 1.
C8_InvalidLeadByte ==
    [][ ( /\ kind = "utf8"
          /\ DecoderPulled
          /\ cursor < Len(bytes)
          /\ \/ bytes[cursor + 1] >= 128 /\ bytes[cursor + 1] <= 191
             \/ bytes[cursor + 1] >= 248 /\ bytes[cursor + 1] <= 255 ) =>
            (ret' = UnknownUnit /\ cursor' = cursor + 1) ]_vars

\* a stray continuation byte and an invalid lead byte were each skipped
\* with more bytes behind them
C8_Witness ==
    /\ kind = "utf8"
    /\ cursor < Len(bytes)
    /\ \E i, j \in 1..Len(units) :
          /\ bytes[UnitAt(i) + 1] = 128
          /\ bytes[UnitAt(j) + 1] = 248
          /\ UnitInfo(i) = Unknown
          /\ UnitInfo(j) = Unknown

\* C9: every pull of a raw decoder that returns a unit advances the cursor
\* by the width of the returned classification, 1 for Unknown.
C9_WidthIsBytesConsumed ==
    [][ (DecoderPulled /\ ret'[1] = "Some") =>
            cursor' - cursor = Width(ret'[2][2]) ]_vars

\* the history holds a Unicode unit and an Unknown unit whose lead byte
\* declared 2, 3 or 4 bytes
C9_Witness ==
    /\ \E i \in 1..Len(units) : UnitInfo(i)[1] = "Unicode"
    /\ \E i \in 1..Len(units) :
          /\ UnitInfo(i) = Unknown
          /\ Declared(UnitAt(i)) >= 2
          /\ (i < Len(units) => UnitAt(i + 1) = UnitAt(i) + 1)
          /\ (i = Len(units) => cursor = UnitAt(i) + 1)

\* C10: no pull panics; a pull of a raw decoder (direct or through the
\* adapter) returns end exactly when the cursor is Len(bytes) and otherwise
\* returns a unit and moves the cursor forward; at most Len(bytes) units and
\* characters are returned, and a caller that keeps pulling reaches end.
C10_InfallibleTermination ==
    /\ [](fault = "none" /\ Len(units) <= Len(bytes) /\ Len(out) <= Len(bytes))
    /\ [][ DecoderPulled =>
              /\ (ret' = None) <=> (cursor = Len(bytes))
              /\ (ret' # None) => (ret'[1] = "Some" /\ cursor' > cursor) ]_vars
    /\ <>(Drained /\ (aligned => aret = None))

\* a UTF-8 decoder under the adapter reached end over a three-byte buffer
\* with malformed bytes
C10_Witness ==
    /\ AlignedDrained
    /\ Drained
    /\ kind = "utf8"
    /\ cursor = Len(bytes)
    /\ Len(bytes) >= 3
    /\ \E i \in 1..Len(units) : UnitInfo(i) = Unknown

----------------------------------------------------------------------------
\* the units decoder k returns over buffer b from cursor cur on when nothing
\* else runs
RECURSIVE Alone(_, _, _)
Alone(k, b, cur) ==
    LET r == DecoderNext(k, b, cur)
    IN  IF r.item[1] # "Some" THEN <<>>
        ELSE <<<<cur, r.item[2][1], r.item[2][2]>>>> \o Alone(k, b, r.cursor)

IsPrefix(s, t) == Len(s) <= Len(t) /\ s = SubSeq(t, 1, Len(s))

\* C11: with two decoder instances over one buffer pulled in any order, the
\* units each has returned are always the first units of its run alone, all
\* of them once it has returned end, and no pull changes the buffer.
C11_IndependentInstances ==
    /\ [](/\ IsPrefix(units, Alone(kind, bytes, 0))
          /\ IsPrefix(units2, Alone(kind2, bytes, 0))
          /\ (ret = None => units = Alone(kind, bytes, 0))
          /\ (ret2 = None => units2 = Alone(kind2, bytes, 0)))
    /\ [][bytes' = bytes]_vars

\* two raw decoders of different types over one buffer: the first drained,
\* the second part of the way through a multi-byte run
C11_Witness ==
    /\ ~aligned
    /\ kind = "utf8"
    /\ kind2 = "ascii"
    /\ ret = None
    /\ \E i \in 1..Len(units) : UnitInfo(i)[1] = "Unicode"
    /\ cursor2 >= 1
    /\ cursor2 < cursor
    /\ units2 # <<>>

\* C12: the cursor of either decoder stays within 0..Len(bytes) and never
\* decreases, and every index a pull reads (the lead byte and the clamped
\* slice) is a valid index of the buffer, so no slice panics.
C12_CursorBounds ==
    /\ [](/\ cursor >= 0 /\ cursor <= Len(bytes)
          /\ read \subseteq 0..(Len(bytes) - 1)
          /\ fault # "slice index")
    /\ [][cursor' >= cursor]_vars

\* a 4-byte lead with fewer than four bytes left was just read up to the end
\* of the buffer
C12_Witness ==
    /\ kind = "utf8"
    /\ cursor >= 1
    /\ Declared(cursor - 1) = 4
    /\ Len(bytes) - (cursor - 1) < 4
    /\ Len(bytes) - (cursor - 1) >= 2
    /\ read = (cursor - 1)..(Len(bytes) - 1)
    /\ ret = UnknownUnit

\* C13: a pull of LossyUTF8Decoder on a lead byte of declared width N with
\* fewer than N bytes left returns (replacement, Unknown) and advances by 1;
\* a pull returns Unicode(N) only when N bytes were left at the cursor.
C13_TruncatedNeverAccepted ==
    [][ (kind = "utf8" /\ DecoderPulled /\ cursor < Len(bytes)) =>
            /\ (Declared(cursor) # 0 /\ Len(bytes) - cursor < Declared(cursor)) =>
                    (ret' = UnknownUnit /\ cursor' = cursor + 1)
            /\ (ret'[1] = "Some" /\ ret'[2][2][1] = "Unicode") =>
                    (Declared(cursor) = ret'[2][2][2]
                     /\ cursor + ret'[2][2][2] <= Len(bytes)) ]_vars

\* a 3-byte lead followed by one good continuation byte at the end of the
\* buffer was rejected
C13_Witness ==
    /\ kind = "utf8"
    /\ cursor >= 1
    /\ cursor = Len(bytes) - 1
    /\ bytes[cursor] = 224
    /\ bytes[cursor + 1] = 160
    /\ ret = UnknownUnit
    /\ UnitAt(Len(units)) = cursor - 1

\* C14: at every offset of every buffer where the lead byte is not rejected,
\* a clamped chunk that passes from_utf8 is not empty and holds exactly one
\* char, so neither the expect nor the debug_assert of LossyUTF8Decoder::next
\* ever fails.
C14_AssertionsUnreachable ==
    /\ fault # "expect"
    /\ fault # "debug_assert"
    /\ \A p \in 0..(Len(bytes) - 1) :
          LET info == LeadInfo(bytes[p + 1])
          IN  info # Unknown =>
                  LET chunk == SubSeq(bytes, p + 1,
                                      Min(Len(bytes), p + CharTypeSize(info)))
                      res == from_utf8(chunk)
                  IN  res.ok => (chunk # <<>> /\ Len(res.chars) = 1)

\* a 2-byte chunk ending exactly at the end of the buffer passed validation
\* and both assertions
C14_Witness ==
    /\ kind = "utf8"
    /\ fault = "none"
    /\ Len(units) >= 2
    /\ ret[1] = "Some"
    /\ ret[2][2] = Unicode(2)
    /\ cursor = Len(bytes)
    /\ from_utf8(SubSeq(bytes, cursor - 1, cursor)).ok

\* C15: a ByteAlignedDecoder pull with fillers pending returns the filler
\* glyph, lowers the pending count by 1 and leaves the wrapped decoder as it
\* was (cursor, last result, history, no buffer read); the wrapped decoder
\* moves only in a pull made with no filler pending, by one unit at most.
C15_FillerStepsFrame ==
    [][ (aligned /\ fault = "none") =>
            /\ to_fill > 0 =>
                  /\ aret' = Some(FILLER)
                  /\ to_fill' = to_fill - 1
                  /\ cursor' = cursor
                  /\ ret' = ret
                  /\ units' = units
                  /\ read' = {}
            /\ Len(units') <= Len(units) + 1
            /\ (units' # units \/ cursor' # cursor) => to_fill = 0 ]_vars

\* the first of the two fillers of a 3-byte character has been returned and
\* another byte waits behind the character
C15_Witness ==
    /\ aligned
    /\ aret = Some(FILLER)
    /\ to_fill = 1
    /\ read = {}
    /\ cursor < Len(bytes)
    /\ UnitInfo(Len(units)) = Unicode(3)

\* C16: under the adapter, at every moment the number of characters returned
\* plus the pending filler count is the wrapped decoder's cursor; the pending
\* count is at most 3, and once the adapter has returned end the number of
\* characters returned is the cursor, which is Len(bytes).
C16_AdapterRunningInvariant ==
    aligned =>
        /\ Len(out) + to_fill = cursor
        /\ to_fill <= 3
        /\ cursor - Len(out) <= 3
        /\ aret = None => (Len(out) = cursor /\ cursor = Len(bytes))

\* a 4-byte character was just returned: three bytes of input ahead
C16_Witness ==
    /\ aligned
    /\ to_fill = 3
    /\ cursor = Len(out) + 3
    /\ aret[1] = "Some"
    /\ aret[2] # FILLER

\* C17: once a raw decoder has returned end, a later pull returns end and
\* leaves the cursor; once the adapter has returned end, a later pull returns
\* end and leaves the cursor and the pending filler count; the adapter
\* returns end only with no filler pending.
C17_EndIsAbsorbing ==
    /\ []((aligned /\ aret = None) => (to_fill = 0 /\ ret = None))
    /\ [][ /\ (~aligned /\ ret = None) => (ret' = None /\ cursor' = cursor)
           /\ (aligned /\ aret = None) =>
                  /\ aret' = None
                  /\ ret' = None
                  /\ cursor' = cursor
                  /\ to_fill' = to_fill
                  /\ out' = out ]_vars

\* the adapter over a UTF-8 decoder was pulled again after it had returned end
C17_Witness ==
    /\ after_end
    /\ aligned
    /\ kind = "utf8"
    /\ aret = None
    /\ ret = None
    /\ Len(bytes) >= 2
    /\ to_fill = 0

\* every byte of the buffer is in 0x00..0x7F
SevenBit == \A i \in 1..Len(bytes) : bytes[i] <= 127

Shorter(s, t) == IF Len(s) <= Len(t) THEN Len(s) ELSE Len(t)

\* C18: over a 7-bit buffer a LossyUTF8Decoder and a LossyASCIIDecoder return
\* the same units pull for pull and have equal cursors after equally many
\* units; their byte-aligned outputs agree character for character, are
\* equal once both have ended, and hold neither the replacement character
\* nor the filler glyph.
C18_DecodersAgreeOn7Bit ==
    (SevenBit /\ kind = "utf8" /\ kind2 = "ascii") =>
        /\ \A i \in 1..Shorter(units, units2) : units[i] = units2[i]
        /\ Len(units) = Len(units2) => cursor = cursor2
        /\ (ret = None /\ ret2 = None) => units = units2
        /\ \A i \in 1..Shorter(out, out2) : out[i] = out2[i]
        /\ (aligned /\ aret = None /\ aret2 = None) => out = out2
        /\ \A i \in 1..Len(out) : out[i] # REPLACEMENT /\ out[i] # FILLER
        /\ \A i \in 1..Len(out2) : out2[i] # REPLACEMENT /\ out2[i] # FILLER

\* both adapters drained over a 7-bit buffer holding 0x00 and 0x7F
C18_Witness ==
    /\ SevenBit
    /\ kind = "utf8"
    /\ kind2 = "ascii"
    /\ aligned
    /\ aret = None
    /\ aret2 = None
    /\ \E i, j \in 1..Len(bytes) : bytes[i] = 0 /\ bytes[j] = 127
    /\ out = bytes
    /\ out2 = bytes

\* C19: the subtraction width - 1 of the adapter never underflows and the
\* pending filler count stays in 0..3: every classification the decoders
\* return has width at least 1, and a Unicode width is 2, 3 or 4.
C19_NoUnderflow ==
    /\ fault # "subtract overflow"
    /\ to_fill \in 0..3
    /\ \A i \in 1..Len(units) :
          /\ CharTypeSize(UnitInfo(i)) >= 1
          /\ UnitInfo(i)[1] = "Unicode" => UnitInfo(i)[2] \in {2, 3, 4}

\* the adapter has taken width - 1 for a 3-byte unit and for an Unknown unit
C19_Witness ==
    /\ aligned
    /\ to_fill = 0
    /\ Len(out) = 4
    /\ \E i \in 1..Len(units) : UnitInfo(i) = Unicode(3)
    /\ \E i \in 1..Len(units) : UnitInfo(i) = Unknown

====
